---- MODULE Spec2Model ----
(***************************************************************************)
(* A model of the stale-review-request notifier: src/src/main.py drives    *)
(* src/src/github_services.py, which reads the open pull requests and      *)
(* their timelines over REST, groups the overdue ones by reviewer, wipes   *)
(* the discussion category over GraphQL and creates one discussion per     *)
(* reviewer.  Every network request is one step of the model; the server   *)
(* answers each request with a response drawn from a small set.            *)
(***************************************************************************)
EXTENDS Integers, Sequences, FiniteSets, TLC

(***************************************************************************)
(* Bounds of the model.                                                    *)
(***************************************************************************)
\* Pull requests the server lists in one run.
MaxPRs == 2
\* Timeline events the server returns in one run.
MaxEvents == 3
\* Seconds the clock may advance during one run.
MaxTicks == 1
\* Discussions in the category before the run.
MaxDiscussions == 2
\* Discussions in the category before the run, beyond LISTING_LAST.
MaxExtraDiscussions == 1
\* Calls of generate_message by one caller.
MaxRenders == 2

(***************************************************************************)
(* Program constants.                                                      *)
(***************************************************************************)
\* discussions(categoryId: $category_id, last:10)
LISTING_LAST == 10
\* discussionCategories(first: 10)
CATEGORIES_FIRST == 10
TEMPLATE_PATH == ".github/PENDING_REVIEW_NOTIFICATION_TEMPLATE.md"
\* datetime.timedelta(hours=1) in seconds.
SECONDS_PER_HOUR == 3600

None == "None"
\* The absent timestamp of an assignee (no 'created_at' key, a None attribute).
NoTimestamp == 0 - 1
\* --max-wait-hours not given: argparse leaves None.
NoHours == 0 - 1

(***************************************************************************)
(* The values the inputs are drawn from.                                   *)
(***************************************************************************)
Usernames == {"authorName", "reviewerName1", "reviewerName2"}
PRAuthor == "authorName"
\* The clock when the run starts, in seconds: 02:00:00.
StartOfRun == 2 * SECONDS_PER_HOUR
\* ISO-8601 times of day <<hour, minute, second>>; with a threshold of one
\* hour the first is exactly at the threshold when the run starts and the
\* second one second below it.
NearWireTimes == {<<1, 0, 0>>, <<1, 0, 1>>}

RECURSIVE SeqsUpTo(_, _)
\* All sequences over S of length at most n.
SeqsUpTo(S, n) ==
    IF n = 0 THEN {<<>>}
    ELSE LET shorter == SeqsUpTo(S, n - 1)
         IN  shorter \cup {Append(s, x) : s \in shorter, x \in S}

\* A timeline event of the wire format: event, assignee.login, created_at.
AssignedEvents(times) ==
    [event : {"assigned"}, login : Usernames, created_at : times]
OtherEvents == [event : {"created"}, login : {None}, created_at : {<<0, 0, 0>>}]

\* The assignee lists of the fetch-phase specification: none, one reviewer,
\* two reviewers, and the author assigned to their own pull request.
FilterAssigneeLists ==
    {<<>>, <<"reviewerName1">>, <<"reviewerName1", "reviewerName2">>,
     <<"authorName", "reviewerName1">>}

\* How a request can end: a success status, no answer within the timeout,
\* or a non-success status, whose body is an error document or has the
\* 'data' the caller reads.
Outcomes == {"ok", "timeout", "http_error", "http_error_with_data"}

\* The outcomes on which response.raise_for_status() raises.
HttpErrors == {"http_error", "http_error_with_data"}

VARIABLES
    pc,                       \* position of main
    error,                    \* the exception that ended the run, or NoError
    args,                     \* parsed_args: token, repo, category,
                              \* max_wait_hours
    TOKEN,                    \* github_services._TOKEN
    now,                      \* the clock, in seconds
    calls,                    \* every request sent, in order
    page_number,              \* get_prs_assigned_to_reviewers: page_number
    pr_subset,                \* the page of pull-request dicts being handled
    pr_index,                 \* the dict of pr_subset whose timeline is read
    tl_page_number,           \* get_pull_request_object_from_dict: page_number
    updated_bound,            \* whether updated_pr_dict is bound
    tl_served,                \* timeline events the server has returned
    heap,                     \* every PullRequest object built, in order
    pull_requests,            \* references (into heap) of the current page
    fpos,                     \* the filter loops' position <<pr, assignee>>
    evals,                    \* each evaluation of the filter, with its clock
    reviewer_to_assigned_prs, \* the ordered map reviewer -> references
    template,                 \* the file at TEMPLATE_PATH, or None
    categories,               \* the server's discussion categories
    category_seen,            \* a category lookup of this run has succeeded
    discussions,              \* the server's discussions in the category
    before,                   \* the discussions in the category before the run
    discussion_ids,           \* delete_discussions: discussion_ids
    del_index,                \* delete_discussions: position in discussion_ids
    cr_index,                 \* main: position in reviewer_to_assigned_prs
    message,                  \* main: discussion_body of this iteration
    gm_args,                  \* a caller of generate_message: its arguments
    rendered                  \* what its calls returned, with the clock

vars == <<pc, error, args, TOKEN, now, calls, page_number, pr_subset, pr_index,
          tl_page_number, updated_bound, tl_served, heap, pull_requests, fpos,
          evals, reviewer_to_assigned_prs, template, categories,
          category_seen, discussions, before, discussion_ids, del_index,
          cr_index, message, gm_args, rendered>>

fetch_vars == <<page_number, pr_subset, pr_index, tl_page_number,
                updated_bound, tl_served, heap, pull_requests, fpos, evals,
                reviewer_to_assigned_prs>>
sync_vars == <<discussions, discussion_ids, del_index, cr_index, message,
               category_seen>>

render_vars == <<gm_args, rendered>>

world_vars == <<args, template, before, render_vars>>

NoError == <<"", "">>


(***************************************************************************)
(* github_domain: the value types of a pull request and its assignees.     *)
(***************************************************************************)
\* Assignee.from_github_response / PullRequest.from_github_response: an
\* assignee dict that was never given 'created_at' yields no timestamp.
from_github_response(pr_dict) ==
    [pr_number |-> pr_dict.number,
     author_username |-> pr_dict.author,
     assignees |-> [i \in DOMAIN pr_dict.assignees |->
                       [username |-> pr_dict.assignees[i].login,
                        assigned_on_timestamp |->
                            pr_dict.assignees[i].created_at]]]

\* PullRequest.is_reviewer_assigned
is_reviewer_assigned(pull_request) == Len(pull_request.assignees) > 0

(***************************************************************************)
(* github_services: helpers.                                               *)
(***************************************************************************)
\* dateutil's parser.parse on 'YYYY-MM-DDTHH:MM:SSZ': the instant, here in
\* seconds since midnight UTC of the day of the run.
parse(created_at) ==
    created_at[1] * SECONDS_PER_HOUR + created_at[2] * 60 + created_at[3]

\* datetime.timedelta(hours=h), in seconds.
timedelta(hours) == hours * SECONDS_PER_HOUR

\* A variant that keeps the timestamp an assignee dict already has.
get_pull_request_dict_with_timestamp_first_wins(pr_dict, event) ==
    [pr_dict EXCEPT !.assignees =
        [i \in DOMAIN @ |->
            IF event.login = @[i].login /\ @[i].created_at = NoTimestamp
            THEN [@[i] EXCEPT !.created_at = parse(event.created_at)]
            ELSE @[i]]]

\* get_pull_request_dict_with_timestamp: every assignee dict whose login is
\* the event's assignee login gets 'created_at'; the dict is changed in place.
get_pull_request_dict_with_timestamp(pr_dict, event) ==
    [pr_dict EXCEPT !.assignees =
        [i \in DOMAIN @ |->
            IF event.login = @[i].login
            THEN [@[i] EXCEPT !.created_at = parse(event.created_at)]
            ELSE @[i]]]

RECURSIVE apply_timeline_subset(_, _)
\* The loop over one timeline page: events that are not 'assigned' are
\* skipped, the others are applied in order.
apply_timeline_subset(pr_dict, timeline_subset) ==
    IF timeline_subset = <<>> THEN pr_dict
    ELSE LET event == Head(timeline_subset)
             next_dict == IF event.event # "assigned" THEN pr_dict
                          ELSE get_pull_request_dict_with_timestamp(
                                   pr_dict, event)
         IN  apply_timeline_subset(next_dict, Tail(timeline_subset))

\* The page binds updated_pr_dict iff it holds an 'assigned' event.
binds_updated_pr_dict(timeline_subset) ==
    \E i \in DOMAIN timeline_subset : timeline_subset[i].event = "assigned"

\* pending_review_time = now - reviewer.assigned_on_timestamp
pending_review_time(clock, reviewer) == clock - reviewer.assigned_on_timestamp

\* Variants of the condition: without the test of the author, and with a
\* strict comparison.
is_pending_too_long_any_user(reviewer, pull_request, pending, max_waiting_time_in_hours) ==
    pending >= timedelta(max_waiting_time_in_hours)

is_pending_too_long_strict(reviewer, pull_request, pending, max_waiting_time_in_hours) ==
    /\ reviewer.username # pull_request.author_username
    /\ pending > timedelta(max_waiting_time_in_hours)

\* Lines 141-144: the condition under which the pull request is appended
\* for the reviewer.
is_pending_too_long(reviewer, pull_request, pending, max_waiting_time_in_hours) ==
    /\ reviewer.username # pull_request.author_username
    /\ pending >= timedelta(max_waiting_time_in_hours)

\* A variant that puts the pull request at the front of the reviewer's list.
append_pr_front(map, username, ref) ==
    IF \E k \in DOMAIN map : map[k].reviewer = username
    THEN [k \in DOMAIN map |->
             IF map[k].reviewer = username
             THEN [map[k] EXCEPT !.prs = <<ref>> \o @]
             ELSE map[k]]
    ELSE Append(map, [reviewer |-> username, prs |-> <<ref>>])

\* reviewer_to_assigned_prs[username].append(pull_request) on a defaultdict
\* of lists, which keeps its keys in insertion order.
append_pr(map, username, ref) ==
    IF \E k \in DOMAIN map : map[k].reviewer = username
    THEN [k \in DOMAIN map |->
             IF map[k].reviewer = username
             THEN [map[k] EXCEPT !.prs = Append(@, ref)]
             ELSE map[k]]
    ELSE Append(map, [reviewer |-> username, prs |-> <<ref>>])

RECURSIVE next_position(_, _, _, _)
\* The position after <<i, j>> of the loops `for pull_request in
\* pull_requests` / `for reviewer in pull_request.assignees`, skipping pull
\* requests for which is_reviewer_assigned() is false; <<0, 0>> at the end.
next_position(objects, refs, i, j) ==
    IF i > Len(refs) THEN <<0, 0>>
    ELSE IF is_reviewer_assigned(objects[refs[i]])
            /\ j < Len(objects[refs[i]].assignees)
         THEN <<i, j + 1>>
         ELSE next_position(objects, refs, i + 1, 0)

\* A variant that returns from the function after the first page.
after_position_return(position) ==
    IF position[1] = 0 THEN "delete_discussions" ELSE "filter"

\* Lines 110 and 134-145: after the last assignee of the page's last pull
\* request the `while True` loop asks for the next page.
after_position(position) ==
    IF position[1] = 0 THEN "get_prs" ELSE "filter"

(***************************************************************************)
(* The requests log.                                                       *)
(***************************************************************************)
\* main lines 113-115 and 135-136: the org_name/repo_name that main passes
\* to the service.  The split of parsed_args.repo is commented out; the
\* names are literals, first for the fetch and then for the discussions.
org_and_repo ==
    IF pc \in {"main", "get_prs", "get_timeline", "filter"}
    THEN "oppia/oppia"
    ELSE "SD-13/test-pending-review-notifier"

\* One request: its method and kind, the service operation and the iteration
\* of main's loop that sent it, its page, its subject (a pull-request number
\* or a discussion id), a created discussion's title and body, how it
\* ended, and the org_name/repo_name of its URL or query.
Request(method, kind, op, iter, page, arg, title, body, outcome) ==
    [method |-> method, kind |-> kind, op |-> op, iter |-> iter,
     page |-> page, arg |-> arg, title |-> title, body |-> body,
     outcome |-> outcome, repo |-> org_and_repo]

Call(method, kind, op, page, arg, outcome) ==
    Request(method, kind, op, 0, page, arg, <<>>, <<>>, outcome)

\* The request with the page of items it was answered with.
Answered(call, items) == [call EXCEPT !.body = items]

Raise(e) == /\ pc' = "failed"
            /\ error' = e

(***************************************************************************)
(* Init: parsed arguments and the state of the world before the run.       *)
(***************************************************************************)
CategoryNode(name) == [id |-> <<"id", name>>, name |-> name]

OldDiscussion(k) == [id |-> k, title |-> <<"old", "">>, body |-> <<>>]

\* parsed_args of a run that is given --repo, --category and
\* --max-wait-hours, as the workflow and test_main_function give them.
FullArgs(tokens) ==
    [token : tokens, repo : {"orgName/repo"}, category : {"category"},
     max_wait_hours : {1}]

InitWithArgs(arguments, counts, templates, category_lists) ==
    /\ pc = "main"
    /\ error = NoError
    /\ args \in arguments
    /\ TOKEN = None
    /\ now = StartOfRun
    /\ calls = <<>>
    /\ page_number = 1
    /\ pr_subset = <<>>
    /\ pr_index = 0
    /\ tl_page_number = 1
    /\ updated_bound = FALSE
    /\ tl_served = 0
    /\ heap = <<>>
    /\ pull_requests = <<>>
    /\ fpos = <<0, 0>>
    /\ evals = <<>>
    /\ reviewer_to_assigned_prs = <<>>
    /\ template \in templates
    /\ categories \in category_lists
    /\ category_seen = FALSE
    /\ \E n \in counts : discussions = [k \in 1..n |-> OldDiscussion(k)]
    /\ before = discussions
    /\ discussion_ids = <<>>
    /\ del_index = 0
    /\ cr_index = 0
    /\ message = <<>>
    /\ gm_args = [username |-> None, pr_list |-> <<>>]
    /\ rendered = <<>>

InitWith(tokens, counts, templates, category_lists) ==
    InitWithArgs(FullArgs(tokens), counts, templates, category_lists)

(***************************************************************************)
(* main, up to init_service.                                               *)
(***************************************************************************)
\* A variant that accepts the empty string.
is_missing_token_none_only(token) == token = None

\* init_service line 49: the tokens that are refused.
is_missing_token(token) == token = None \/ token = ""

\* main lines 111-129: the arguments are read, the loop over required_args
\* tests the two names (never None), and init_service stores the token.
init_service ==
    /\ pc = "main"
    /\ IF is_missing_token(args.token)
       THEN /\ Raise(<<"Must provide a valid GitHub Personal Access Token.", "">>)
            /\ UNCHANGED TOKEN
       ELSE /\ TOKEN' = args.token
            /\ pc' = "get_prs"
            /\ UNCHANGED error
    /\ UNCHANGED <<now, calls, fetch_vars, sync_vars, world_vars, categories>>

\* The clock advances by a second while main is at one of the positions.
\* The run reads the clock only in the filter loop and when a message is
\* rendered.
Tick(positions) ==
    /\ pc \in positions
    /\ now < StartOfRun + MaxTicks
    /\ now' = now + 1
    /\ UNCHANGED <<pc, error, TOKEN, calls, fetch_vars, sync_vars, world_vars,
                   categories>>

(***************************************************************************)
(* get_prs_assigned_to_reviewers                                           *)
(***************************************************************************)
\* A variant that leaves out every second page.
next_page_skipping(page_number_) == page_number_ + 2

\* A variant that asks for the same page again.
next_page_again(page_number_) == page_number_

\* Lines 127 and 185: page_number += 1.
next_page(page_number_) == page_number_ + 1

\* The pages the server can answer with: at most `room` dicts, numbered in
\* the order of the listing.
PullPages(lists, first, room) ==
    {[i \in DOMAIN s |->
         [number |-> first + i, author |-> PRAuthor,
          assignees |-> [k \in DOMAIN s[i] |->
                            [login |-> s[i][k], created_at |-> NoTimestamp]]]] :
     s \in SeqsUpTo(lists, room) \ {<<>>}}

\* Lines 111-132: one request for a page of pull requests.  An empty page
\* ends the loop and the function returns; otherwise the page's timelines
\* are read next.
GetPullRequests(lists, outcomes) ==
    /\ pc = "get_prs"
    /\ \E outcome \in outcomes :
        LET call == Call("GET", "pulls", "get_prs_assigned_to_reviewers",
                         page_number, 0, outcome)
        IN CASE outcome = "timeout" ->
                  /\ calls' = Append(calls, call)
                  /\ Raise(<<"Timeout", "">>)
                  /\ UNCHANGED fetch_vars
             [] outcome \in HttpErrors ->
                  /\ calls' = Append(calls, call)
                  /\ Raise(<<"HTTPError", "">>)
                  /\ UNCHANGED fetch_vars
             [] OTHER ->
                  \E page \in {<<>>} \cup
                        PullPages(lists, Len(heap), MaxPRs - Len(heap)) :
                   /\ calls' = Append(calls, Answered(call, page))
                   /\ IF Len(page) = 0
                     THEN /\ pc' = "delete_discussions"
                          /\ UNCHANGED <<error, fetch_vars>>
                     ELSE /\ page_number' = next_page(page_number)
                          /\ pr_subset' = page
                          /\ pr_index' = 1
                          /\ tl_page_number' = 1
                          /\ updated_bound' = FALSE
                          /\ pull_requests' = <<>>
                          /\ pc' = "get_timeline"
                          /\ UNCHANGED <<error, tl_served, heap, fpos,
                                         evals, reviewer_to_assigned_prs>>
    /\ UNCHANGED <<TOKEN, now, sync_vars, world_vars, categories>>

\* What the log keeps of a timeline page: its events, or only their number.
EventCount(timeline_subset) == [k \in DOMAIN timeline_subset |-> "event"]

Logged(whole, timeline_subset) ==
    IF whole THEN timeline_subset ELSE EventCount(timeline_subset)

\* get_pull_request_object_from_dict, lines 163-188: one request for a page
\* of the timeline of pr_subset[pr_index].  An empty page ends the loop and
\* the PullRequest object is built from updated_pr_dict, which is unbound
\* when no 'assigned' event was seen.  After the last dict of the page the
\* loops of lines 134-145 start.  The log keeps the whole page, or the
\* number of its events.
GetTimelineLogging(events, outcomes, whole) ==
    /\ pc = "get_timeline"
    /\ \E outcome \in outcomes :
        LET call == Call("GET", "timeline", "get_prs_assigned_to_reviewers",
                         tl_page_number, pr_subset[pr_index].number, outcome)
        IN CASE outcome = "timeout" ->
                  /\ calls' = Append(calls, call)
                  /\ Raise(<<"Timeout", "">>)
                  /\ UNCHANGED fetch_vars
             [] outcome \in HttpErrors ->
                  /\ calls' = Append(calls, call)
                  /\ Raise(<<"HTTPError", "">>)
                  /\ UNCHANGED fetch_vars
             [] OTHER ->
                  \E timeline_subset \in
                        SeqsUpTo(events, MaxEvents - tl_served) :
                   /\ calls' = Append(calls,
                                 Answered(call,
                                     Logged(whole, timeline_subset)))
                   /\ IF Len(timeline_subset) = 0
                     THEN IF ~updated_bound
                          THEN /\ Raise(<<"UnboundLocalError",
                                          "updated_pr_dict">>)
                               /\ UNCHANGED fetch_vars
                          ELSE LET objects == Append(heap,
                                       from_github_response(pr_subset[pr_index]))
                                   refs == Append(pull_requests, Len(objects))
                               IN  /\ heap' = objects
                                   /\ pull_requests' = refs
                                   /\ IF pr_index < Len(pr_subset)
                                      THEN /\ pr_index' = pr_index + 1
                                           /\ tl_page_number' = 1
                                           /\ updated_bound' = FALSE
                                           /\ UNCHANGED <<pc, fpos,
                                                  tl_served>>
                                      ELSE /\ fpos' = next_position(
                                                  objects, refs, 1, 0)
                                           /\ pc' = after_position(fpos')
                                           /\ UNCHANGED <<pr_index,
                                                  tl_page_number,
                                                  updated_bound, tl_served>>
                                   /\ UNCHANGED <<error, page_number,
                                          pr_subset, evals,
                                          reviewer_to_assigned_prs>>
                     ELSE /\ pr_subset' = [pr_subset EXCEPT ![pr_index] =
                                 apply_timeline_subset(@, timeline_subset)]
                          /\ updated_bound' =
                                 (updated_bound
                                  \/ binds_updated_pr_dict(timeline_subset))
                          /\ tl_page_number' = next_page(tl_page_number)
                          /\ tl_served' = tl_served + Len(timeline_subset)
                          /\ UNCHANGED <<pc, error, page_number, pr_index,
                                 heap, pull_requests, fpos, evals,
                                 reviewer_to_assigned_prs>>
    /\ UNCHANGED <<TOKEN, now, sync_vars, world_vars, categories>>

GetTimeline(events, outcomes) == GetTimelineLogging(events, outcomes, FALSE)

\* Lines 137-145: one iteration of `for reviewer in pull_request.assignees`.
\* The clock is read and the assignment timestamp subtracted from it, which
\* raises TypeError when the assignee has no timestamp; then the pull
\* request is appended for the reviewer if it has waited too long.  For a
\* reviewer who is not the author the threshold is built, which raises
\* TypeError when max_waiting_time_in_hours is None.
FilterStep ==
    /\ pc = "filter"
    /\ LET ref == pull_requests[fpos[1]]
           pull_request == heap[ref]
           reviewer == pull_request.assignees[fpos[2]]
       IN  IF reviewer.assigned_on_timestamp = NoTimestamp
           THEN /\ Raise(<<"TypeError", "datetime - NoneType">>)
                /\ UNCHANGED <<fpos, evals, reviewer_to_assigned_prs>>
           ELSE IF /\ reviewer.username # pull_request.author_username
                   /\ args.max_wait_hours = NoHours
           THEN /\ Raise(<<"TypeError", "timedelta(hours=None)">>)
                /\ UNCHANGED <<fpos, evals, reviewer_to_assigned_prs>>
           ELSE /\ evals' = Append(evals, [ref |-> ref,
                                    reviewer |-> reviewer.username,
                                    at |-> now])
                /\ reviewer_to_assigned_prs' =
                       IF is_pending_too_long(reviewer, pull_request,
                              pending_review_time(now, reviewer),
                              args.max_wait_hours)
                       THEN append_pr(reviewer_to_assigned_prs,
                                      reviewer.username, ref)
                       ELSE reviewer_to_assigned_prs
                /\ fpos' = next_position(heap, pull_requests,
                                         fpos[1], fpos[2])
                /\ pc' = after_position(fpos')
                /\ UNCHANGED error
    /\ UNCHANGED <<TOKEN, now, calls, page_number, pr_subset, pr_index,
                   tl_page_number, updated_bound, tl_served, heap,
                   pull_requests, sync_vars, world_vars, categories>>

(***************************************************************************)
(* main.generate_message                                                   *)
(***************************************************************************)
\* A piece of text: literal text, or one line of the pull-request list.
Text(t) == [text |-> t, pr |-> 0, wait |-> 0]

\* PullRequest.get_assignee: the first assignee with that username, or
\* NoAssignee.
NoAssignee == [username |-> None, assigned_on_timestamp |-> NoTimestamp]

get_assignee(pull_request, username) ==
    LET hits == {i \in DOMAIN pull_request.assignees :
                    pull_request.assignees[i].username = username}
    IN  IF hits = {} THEN NoAssignee
        ELSE pull_request.assignees[
                 CHOOSE i \in hits : \A k \in hits : i <= k]

\* Assignee.get_waiting_time: the time waited when the message is rendered.
get_waiting_time(assignee, clock) == clock - assignee.assigned_on_timestamp

\* f'- [#{pr_number}]({url}) [Waiting for the last {waiting_time}]'
pr_line(pull_request, assignee, clock) ==
    [text |-> "- [#pr_number](url) [Waiting for the last waiting_time]",
     pr |-> pull_request.pr_number,
     wait |-> get_waiting_time(assignee, clock)]

RECURSIVE pr_list_messages(_, _, _)
\* Lines 81-88: one line for each pull request on which username is an
\* assignee.
pr_list_messages(username, objects, clock) ==
    IF objects = <<>> THEN <<>>
    ELSE LET pull_request == Head(objects)
             assignee == get_assignee(pull_request, username)
             rest == pr_list_messages(username, Tail(objects), clock)
         IN  IF assignee # NoAssignee
             THEN <<pr_line(pull_request, assignee, clock)>> \o rest
             ELSE rest

\* A variant that puts nothing between the lines.
join_without_separator(separator, lines) == lines

RECURSIVE join(_, _)
\* separator.join(lines)
join(separator, lines) ==
    IF Len(lines) <= 1 THEN lines
    ELSE <<Head(lines), separator>> \o join(separator, Tail(lines))

\* The texts that r'\{\{ *username *\}\}' and r'\{\{ *pr_list *\}\}' match.
UsernamePlaceholders == {"{{username}}", "{{ username }}"}
PrListPlaceholders == {"{{pr_list}}", "{{ pr_list }}"}

RECURSIVE sub(_, _, _)
\* re.sub(pattern, repl, message): every match, left to right, is replaced
\* by repl; the replacement is not scanned again.
sub(placeholders, repl, text) ==
    IF text = <<>> THEN <<>>
    ELSE IF Head(text).text \in placeholders
         THEN repl \o sub(placeholders, repl, Tail(text))
         ELSE <<Head(text)>> \o sub(placeholders, repl, Tail(text))

\* A variant whose list of lines outlives the call: a later call starts
\* from the lines of the call before.
generate_message_accumulating(username, objects, file, clock) ==
    LET lines == pr_list_messages(username, objects, clock)
        kept == IF rendered = <<>> THEN <<>> ELSE lines
    IN  sub(PrListPlaceholders, join(Text("\n"), kept \o lines),
            sub(UsernamePlaceholders, <<Text(username)>>, file))

\* Lines 93-100: the template with the username and then the pull-request
\* list substituted.
generate_message(username, objects, file, clock) ==
    sub(PrListPlaceholders,
        join(Text("\n"), pr_list_messages(username, objects, clock)),
        sub(UsernamePlaceholders, <<Text(username)>>, file))

\* The template of the tests: '{{ username }}\n{{ pr_list }}'.
TestTemplate == <<Text("{{ username }}"), Text("\n"), Text("{{ pr_list }}")>>

(***************************************************************************)
(* The discussion sync: delete_discussions and create_discussion.          *)
(***************************************************************************)
\* The operation main is in, by its position.
CurrentOp == IF pc \in {"delete_discussions", "list_discussions", "delete"}
             THEN "delete_discussions"
             ELSE "create_discussion"

\* discussionCategories(first: 10) { nodes { id name } }
category_nodes(all) ==
    SubSeq(all, 1, IF Len(all) < CATEGORIES_FIRST THEN Len(all)
                   ELSE CATEGORIES_FIRST)

\* A variant that takes the first node whatever its name.
find_category_id_first_node(nodes, discussion_category) ==
    IF nodes = <<>> THEN <<None, None>> ELSE nodes[1].id

\* Lines 280-287: the id of the first node whose name is the category, or
\* None.
find_category_id(nodes, discussion_category) ==
    LET hits == {i \in DOMAIN nodes : nodes[i].name = discussion_category}
    IN  IF hits = {} THEN <<None, None>>
        ELSE nodes[CHOOSE i \in hits : \A k \in hits : i <= k].id

\* discussions(categoryId: $category_id, last:10) { nodes { id ... } } and
\* lines 343-346: the ids of the last ten discussions of the category.
listed_discussion_ids(all) ==
    LET first == IF Len(all) <= LISTING_LAST THEN 1
                 ELSE Len(all) - LISTING_LAST + 1
    IN  [k \in 1..(Len(all) - first + 1) |-> all[first + k - 1].id]

\* The server without the discussion of that id.
without_discussion(all, id) == SelectSeq(all, LAMBDA d : d.id # id)

\* A variant without the '@'.
discussion_title_plain(reviewer_name) == <<"Pending Reviews: ", reviewer_name>>

\* f"Pending Reviews: @{reviewer_name}"
discussion_title(reviewer_name) == <<"Pending Reviews: @", reviewer_name>>

\* A variant that leaves the loop after its first iteration.
is_last_discussion_id_first(index, ids) == index >= 1

\* `for discussion_id in discussion_ids` ends after the last id.
is_last_discussion_id(index, ids) == index = Len(ids)

\* A variant that ends the run when the category held no discussion.
AfterDelete_unless_empty ==
    /\ cr_index' = 1
    /\ pc' = IF reviewer_to_assigned_prs = <<>> \/ discussions = <<>>
             THEN "done" ELSE "render"

\* Where main goes when delete_discussions has returned: into the loop over
\* reviewer_to_assigned_prs.items(), or to its end when the map is empty.
AfterDelete ==
    /\ cr_index' = 1
    /\ pc' = IF reviewer_to_assigned_prs = <<>> THEN "done" ELSE "render"

\* _get_category_id, called first by _get_discussion_ids (for
\* delete_discussions) and by create_discussion.  The response is read
\* without a status check (lines 276-287): an error document has no 'data'
\* and the subscript raises KeyError, while a body with 'data' is used
\* whatever the status was.
GetCategoryId(outcomes) ==
    /\ pc \in {"delete_discussions", "create_category"}
    /\ \E outcome \in outcomes :
        /\ calls' = Append(calls, Request("POST", "category", CurrentOp,
                               cr_index, 0, 0, <<>>, <<>>, outcome))
        /\ CASE outcome = "timeout" ->
                  /\ Raise(<<"Timeout", "">>)
                  /\ UNCHANGED category_seen
             [] outcome = "http_error" ->
                  /\ Raise(<<"KeyError", "data">>)
                  /\ UNCHANGED category_seen
             [] OTHER ->
                  IF find_category_id(category_nodes(categories),
                                      args.category) = <<None, None>>
                  THEN /\ Raise(<<"category is missing in GitHub Discussion.",
                                  args.category>>)
                       /\ UNCHANGED category_seen
                  ELSE /\ pc' = IF pc = "delete_discussions"
                                THEN "list_discussions" ELSE "create_repo"
                       /\ category_seen' = TRUE
                       /\ UNCHANGED error
    /\ UNCHANGED <<TOKEN, now, fetch_vars, world_vars, categories,
                   discussions, discussion_ids, del_index, cr_index, message>>

\* Someone removes the category from the repository during the run.
CategoryRemoved ==
    /\ pc = "create_category"
    /\ \E i \in DOMAIN categories : categories[i].name = args.category
    /\ categories' = SelectSeq(categories,
                               LAMBDA c : c.name # args.category)
    /\ UNCHANGED <<pc, error, TOKEN, now, calls, fetch_vars, sync_vars,
                   world_vars>>

\* _get_discussion_ids after the category lookup, lines 315-352, and the
\* start of the loop of delete_discussions.  The status is not checked.
GetDiscussionIds(outcomes) ==
    /\ pc = "list_discussions"
    /\ \E outcome \in outcomes :
        /\ calls' = Append(calls, Request("POST", "discussions",
                               "delete_discussions", 0, 0, 0, <<>>, <<>>,
                               outcome))
        /\ CASE outcome = "timeout" ->
                  /\ Raise(<<"Timeout", "">>)
                  /\ UNCHANGED <<discussion_ids, del_index, cr_index>>
             [] outcome = "http_error" ->
                  /\ Raise(<<"KeyError", "data">>)
                  /\ UNCHANGED <<discussion_ids, del_index, cr_index>>
             [] OTHER ->
                  /\ discussion_ids' = listed_discussion_ids(discussions)
                  /\ del_index' = 1
                  /\ IF discussion_ids' = <<>>
                     THEN AfterDelete
                     ELSE pc' = "delete" /\ UNCHANGED cr_index
                  /\ UNCHANGED error
    /\ UNCHANGED <<TOKEN, now, fetch_vars, world_vars, categories,
                   discussions, category_seen, message>>

\* _delete_discussion for discussion_ids[del_index]: one deleteDiscussion
\* mutation.  A request that times out may or may not have reached the
\* server.
DeleteDiscussion(outcomes) ==
    /\ pc = "delete"
    /\ \E outcome \in outcomes :
        /\ calls' = Append(calls, Request("POST", "deleteDiscussion",
                               "delete_discussions", 0, 0,
                               discussion_ids[del_index], <<>>, <<>>,
                               outcome))
        /\ CASE outcome = "timeout" ->
                  /\ Raise(<<"Timeout", "">>)
                  /\ \E applied \in BOOLEAN :
                        discussions' =
                            IF applied
                            THEN without_discussion(discussions,
                                     discussion_ids[del_index])
                            ELSE discussions
                  /\ UNCHANGED <<del_index, cr_index>>
             [] outcome \in HttpErrors ->
                  /\ Raise(<<"HTTPError", "">>)
                  /\ UNCHANGED <<discussions, del_index, cr_index>>
             [] OTHER ->
                  /\ discussions' = without_discussion(discussions,
                                        discussion_ids[del_index])
                  /\ del_index' = del_index + 1
                  /\ IF is_last_discussion_id(del_index, discussion_ids)
                     THEN AfterDelete
                     ELSE UNCHANGED <<pc, cr_index>>
                  /\ UNCHANGED error
    /\ UNCHANGED <<TOKEN, now, fetch_vars, world_vars, categories,
                   discussion_ids, category_seen, message>>

\* main lines 140-142: the title and generate_message for the reviewer at
\* cr_index; the lines are built first, then the template is looked for.
GenerateMessage ==
    /\ pc = "render"
    /\ LET entry == reviewer_to_assigned_prs[cr_index]
           pr_list == [k \in DOMAIN entry.prs |-> heap[entry.prs[k]]]
       IN  IF template = None
           THEN /\ Raise(<<"Please add a template file at: ", TEMPLATE_PATH>>)
                /\ UNCHANGED message
           ELSE /\ message' = generate_message(entry.reviewer, pr_list,
                                                template, now)
                /\ pc' = "create_category"
                /\ UNCHANGED error
    /\ UNCHANGED <<TOKEN, now, calls, fetch_vars, world_vars, categories,
                   discussions, discussion_ids, del_index, cr_index,
                   category_seen>>

\* _get_repository_id, called by create_discussion after the category
\* lookup.  The response is read without a status check.  The repository
\* main names at lines 135-136 exists, so an id is returned.
GetRepositoryId(outcomes) ==
    /\ pc = "create_repo"
    /\ \E outcome \in outcomes :
        /\ calls' = Append(calls, Request("POST", "repository",
                               "create_discussion", cr_index, 0, 0, <<>>,
                               <<>>, outcome))
        /\ CASE outcome = "timeout" -> Raise(<<"Timeout", "">>)
             [] outcome = "http_error" -> Raise(<<"KeyError", "data">>)
             [] OTHER -> pc' = "create_mutation" /\ UNCHANGED error
    /\ UNCHANGED <<TOKEN, now, fetch_vars, world_vars, categories, sync_vars>>

\* A variant that goes on to the next reviewer when the mutation is
\* answered with a non-success status.
CreateDiscussion_continue(outcomes) ==
    /\ pc = "create_mutation"
    /\ LET title == discussion_title(reviewer_to_assigned_prs[cr_index].reviewer)
           created == Append(discussions,
                          [id |-> Len(before) + cr_index, title |-> title,
                           body |-> message])
       IN  \E outcome \in outcomes :
            /\ calls' = Append(calls, Request("POST", "createDiscussion",
                                   "create_discussion", cr_index, 0, 0, title,
                                   message, outcome))
            /\ CASE outcome = "timeout" ->
                      /\ Raise(<<"Timeout", "">>)
                      /\ discussions' \in {discussions, created}
                      /\ UNCHANGED cr_index
                 [] outcome \in HttpErrors ->
                      /\ cr_index' = cr_index + 1
                      /\ pc' = IF cr_index = Len(reviewer_to_assigned_prs)
                               THEN "done" ELSE "render"
                      /\ UNCHANGED <<error, discussions>>
                 [] OTHER ->
                      /\ discussions' = created
                      /\ cr_index' = cr_index + 1
                      /\ pc' = IF cr_index = Len(reviewer_to_assigned_prs)
                               THEN "done" ELSE "render"
                      /\ UNCHANGED error
    /\ UNCHANGED <<TOKEN, now, fetch_vars, world_vars, categories,
                   discussion_ids, del_index, category_seen, message>>

\* create_discussion lines 407-431: the createDiscussion mutation, and the
\* next iteration of main's loop.
CreateDiscussion(outcomes) ==
    /\ pc = "create_mutation"
    /\ LET title == discussion_title(reviewer_to_assigned_prs[cr_index].reviewer)
           created == Append(discussions,
                          [id |-> Len(before) + cr_index, title |-> title,
                           body |-> message])
       IN  \E outcome \in outcomes :
            /\ calls' = Append(calls, Request("POST", "createDiscussion",
                                   "create_discussion", cr_index, 0, 0, title,
                                   message, outcome))
            /\ CASE outcome = "timeout" ->
                      /\ Raise(<<"Timeout", "">>)
                      /\ discussions' \in {discussions, created}
                      /\ UNCHANGED cr_index
                 [] outcome \in HttpErrors ->
                      /\ Raise(<<"HTTPError", "">>)
                      /\ UNCHANGED <<discussions, cr_index>>
                 [] OTHER ->
                      /\ discussions' = created
                      /\ cr_index' = cr_index + 1
                      /\ pc' = IF cr_index = Len(reviewer_to_assigned_prs)
                               THEN "done" ELSE "render"
                      /\ UNCHANGED error
    /\ UNCHANGED <<TOKEN, now, fetch_vars, world_vars, categories,
                   discussion_ids, del_index, category_seen, message>>

(***************************************************************************)
(* The fetch phase alone, with every assignee list and near-threshold      *)
(* timestamps.                                                             *)
(***************************************************************************)
InitFilter == InitWith({"token"}, {0}, {TestTemplate}, {<<>>})

NextFilter ==
    \/ init_service
    \/ Tick({"filter"})
    \/ GetPullRequests(FilterAssigneeLists, {"ok"})
    \/ GetTimeline(AssignedEvents(NearWireTimes) \cup OtherEvents, {"ok"})
    \/ FilterStep

SpecFilter == InitFilter /\ [][NextFilter]_vars

(***************************************************************************)
(* The whole run of main, with failing requests, a missing token, template *)
(* or category, and reviewers assigned long ago.                           *)
(***************************************************************************)
MainAssigneeLists ==
    {<<"reviewerName1">>, <<"reviewerName1", "reviewerName2">>}

\* Assigned two hours before the run, or a second less than an hour.
MainEvents ==
    [event : {"assigned"}, login : {"reviewerName1", "reviewerName2"},
     created_at : {<<0, 0, 0>>}]
    \cup [event : {"assigned"}, login : {"reviewerName2"},
          created_at : {<<1, 0, 1>>}]

CategoryLists ==
    {<<CategoryNode("other")>>,
     <<CategoryNode("other"), CategoryNode("category")>>}

Init == InitWith({None, "", "token"}, {0, 1, MaxDiscussions},
                 {None, TestTemplate}, CategoryLists)

Next ==
    \/ init_service
    \/ Tick({"render"})
    \/ GetPullRequests(MainAssigneeLists, Outcomes)
    \/ GetTimeline(MainEvents, Outcomes)
    \/ FilterStep
    \/ GetCategoryId(Outcomes)
    \/ CategoryRemoved
    \/ GetDiscussionIds(Outcomes)
    \/ DeleteDiscussion(Outcomes)
    \/ GenerateMessage
    \/ GetRepositoryId(Outcomes)
    \/ CreateDiscussion(Outcomes)

Spec == Init /\ [][Next]_vars

(***************************************************************************)
(* The discussion wipe with ten and more discussions in the category.      *)
(***************************************************************************)
WipeAssigneeLists == {<<"reviewerName1">>}

WipeEvents ==
    [event : {"assigned"}, login : {"reviewerName1"},
     created_at : {<<0, 0, 0>>}]

InitWipe ==
    InitWith({"token"},
             (LISTING_LAST - 1)..(LISTING_LAST + MaxExtraDiscussions),
             {TestTemplate}, {<<CategoryNode("category")>>})

NextWipe ==
    \/ init_service
    \/ GetPullRequests(WipeAssigneeLists, {"ok"})
    \/ GetTimeline(WipeEvents, {"ok"})
    \/ FilterStep
    \/ GetCategoryId({"ok"})
    \/ GetDiscussionIds({"ok"})
    \/ DeleteDiscussion(Outcomes)
    \/ GenerateMessage
    \/ GetRepositoryId({"ok"})
    \/ CreateDiscussion(Outcomes)

SpecWipe == InitWipe /\ [][NextWipe]_vars

(***************************************************************************)
(* Runs with arguments left out, and with either repository named.         *)
(***************************************************************************)
SomeArgs ==
    [token : {"token"}, repo : {"orgName/repo", "oppia/oppia"},
     category : {None, "category"}, max_wait_hours : {NoHours, 1}]

InitArgs == InitWithArgs(SomeArgs, {0, 1}, {TestTemplate},
                         {<<CategoryNode("category")>>})

NextArgs ==
    \/ init_service
    \/ GetPullRequests(MainAssigneeLists, {"ok"})
    \/ GetTimeline(MainEvents, {"ok"})
    \/ FilterStep
    \/ GetCategoryId({"ok"})
    \/ GetDiscussionIds({"ok"})
    \/ DeleteDiscussion({"ok"})
    \/ GenerateMessage
    \/ GetRepositoryId({"ok"})
    \/ CreateDiscussion({"ok"})

SpecArgs == InitArgs /\ [][NextArgs]_vars

(***************************************************************************)
(* generate_message called on its own, as the tests call it: any username, *)
(* any list of pull requests, a template or none, once or again.           *)
(***************************************************************************)
\* A template with both spellings of the placeholders and other text.
LetterTemplate ==
    <<Text("Hi "), Text("{{username}}"), Text("\n"), Text("{{pr_list}}"),
      Text("\nBye "), Text("{{ username }}")>>

\* The usernames of the caller: two reviewers, and a string that is the
\* text of a placeholder.
RenderUsernames == {"reviewerName1", "reviewerName2", "{{ pr_list }}"}

\* The Assignee objects a pull request of the caller can have.
RenderAssignees ==
    [username : {"reviewerName1", "reviewerName2"},
     assigned_on_timestamp : {parse(t) : t \in NearWireTimes}]

RenderAssigneeLists ==
    {a \in SeqsUpTo(RenderAssignees, 2) :
        \A i, j \in DOMAIN a : i < j => a[i].username # a[j].username}

\* The lists of PullRequest objects of the caller, numbered in order.
RenderPRLists ==
    {[i \in DOMAIN l |->
         [pr_number |-> i, author_username |-> PRAuthor,
          assignees |-> l[i]]] :
     l \in SeqsUpTo(RenderAssigneeLists, MaxPRs)}

InitRender ==
    /\ pc = "generate_message"
    /\ error = NoError
    /\ args \in FullArgs({"token"})
    /\ TOKEN = None
    /\ now = StartOfRun
    /\ calls = <<>>
    /\ page_number = 1
    /\ pr_subset = <<>>
    /\ pr_index = 0
    /\ tl_page_number = 1
    /\ updated_bound = FALSE
    /\ tl_served = 0
    /\ heap = <<>>
    /\ pull_requests = <<>>
    /\ fpos = <<0, 0>>
    /\ evals = <<>>
    /\ reviewer_to_assigned_prs = <<>>
    /\ template \in {None, TestTemplate, LetterTemplate}
    /\ categories = <<>>
    /\ category_seen = FALSE
    /\ discussions = <<>>
    /\ before = <<>>
    /\ discussion_ids = <<>>
    /\ del_index = 0
    /\ cr_index = 0
    /\ message = <<>>
    /\ gm_args \in [username : RenderUsernames, pr_list : RenderPRLists]
    /\ rendered = <<>>

\* generate_message(username, pr_list, template_path), lines 81-100: the
\* lines are built, then the template is looked for and filled in.
CallGenerateMessage ==
    /\ pc = "generate_message"
    /\ Len(rendered) < MaxRenders
    /\ IF template = None
       THEN /\ Raise(<<"Please add a template file at: ", TEMPLATE_PATH>>)
            /\ UNCHANGED rendered
       ELSE /\ rendered' = Append(rendered,
                   [at |-> now,
                    out |-> generate_message(gm_args.username,
                                gm_args.pr_list, template, now)])
            /\ UNCHANGED <<pc, error>>
    /\ UNCHANGED <<args, TOKEN, now, calls, fetch_vars, sync_vars, template,
                   categories, before, gm_args>>

NextRender ==
    \/ Tick({"generate_message"})
    \/ CallGenerateMessage

SpecRender == InitRender /\ [][NextRender]_vars

(***************************************************************************)
(* The two pagination loops, with the log keeping every page as answered.  *)
(***************************************************************************)
TimelineAssigneeLists ==
    {<<"reviewerName1">>, <<"reviewerName1", "reviewerName2">>}

\* reviewerName1 assigned at either time, reviewerName2 (an assignee of
\* the second list only) at one, and an event of another kind.
TimelineEvents ==
    [event : {"assigned"}, login : {"reviewerName1"},
     created_at : NearWireTimes]
    \cup [event : {"assigned"}, login : {"reviewerName2"},
          created_at : {<<1, 0, 0>>}]
    \cup OtherEvents

InitTimeline == InitWith({"token"}, {0}, {TestTemplate}, {<<>>})

NextTimeline ==
    \/ init_service
    \/ GetPullRequests(TimelineAssigneeLists, {"ok"})
    \/ GetTimelineLogging(TimelineEvents, {"ok"}, TRUE)
    \/ FilterStep

SpecTimeline == InitTimeline /\ [][NextTimeline]_vars

(***************************************************************************)
(* The service operations called on their own, as the tests call them,     *)
(* by a caller that has not (or not successfully) called init_service.     *)
(***************************************************************************)
\* The functions of github_services that send requests.
ServiceOperations ==
    {"get_prs_assigned_to_reviewers", "get_pull_request_object_from_dict",
     "_get_repository_id", "_get_category_id", "_get_discussion_ids",
     "_delete_discussion", "delete_discussions", "create_discussion"}

\* Those that are decorated with @check_token.
CheckedOperations == ServiceOperations \ {"_delete_discussion"}

\* execute_if_token_initialized, lines 66-71, for a checked operation.
check_token_raises(operation) ==
    operation \in CheckedOperations /\ TOKEN = None

InitService ==
    /\ pc = "caller"
    /\ error = NoError
    /\ args \in FullArgs({None, "", "token"})
    /\ TOKEN = None
    /\ now = StartOfRun
    /\ calls = <<>>
    /\ page_number = 1
    /\ pr_subset = <<>>
    /\ pr_index = 0
    /\ tl_page_number = 1
    /\ updated_bound = FALSE
    /\ tl_served = 0
    /\ heap = <<>>
    /\ pull_requests = <<>>
    /\ fpos = <<0, 0>>
    /\ evals = <<>>
    /\ reviewer_to_assigned_prs = <<>>
    /\ template = TestTemplate
    /\ categories = <<CategoryNode("category")>>
    /\ category_seen = FALSE
    /\ \E n \in 0..MaxDiscussions :
          discussions = [k \in 1..n |-> OldDiscussion(k)]
    /\ before = discussions
    /\ discussion_ids = <<>>
    /\ del_index = 0
    /\ cr_index = 0
    /\ message = <<>>
    /\ gm_args = [username |-> None, pr_list |-> <<>>]
    /\ rendered = <<>>

\* The caller calls init_service with its token; on success it is done
\* with the calls made before initialisation.
CallInitService ==
    /\ pc = "caller"
    /\ IF is_missing_token(args.token)
       THEN /\ Raise(<<"Must provide a valid GitHub Personal Access Token.", "">>)
            /\ UNCHANGED TOKEN
       ELSE /\ TOKEN' = args.token
            /\ pc' = "initialised"
            /\ UNCHANGED error
    /\ UNCHANGED <<now, calls, fetch_vars, sync_vars, world_vars, categories>>

\* The caller calls one operation.  A checked operation raises while the
\* token is None; _delete_discussion (lines 354-378) has no decorator and
\* goes on to its request for the discussion id it was given.
CallOperation ==
    /\ pc = "caller"
    /\ \E operation \in ServiceOperations :
          IF check_token_raises(operation)
          THEN /\ Raise(<<"Initialize the service with github_services.init_service(TOKEN).",
                          operation>>)
               /\ UNCHANGED <<discussion_ids, del_index>>
          ELSE /\ operation = "_delete_discussion"
               /\ \E discussion_id \in 1..MaxDiscussions :
                      discussion_ids' = <<discussion_id>>
               /\ del_index' = 1
               /\ pc' = "delete"
               /\ UNCHANGED error
    /\ UNCHANGED <<TOKEN, now, calls, fetch_vars, world_vars, categories,
                   discussions, cr_index, message, category_seen>>

NextService ==
    \/ CallInitService
    \/ CallOperation
    \/ DeleteDiscussion(Outcomes)

SpecService == InitService /\ [][NextService]_vars

(***************************************************************************)
(* What the claims are stated with.                                        *)
(***************************************************************************)
\* The assignee record of an evaluation of the filter.
EvalAssignee(e) ==
    LET assignees == heap[e.ref].assignees
    IN  assignees[CHOOSE i \in DOMAIN assignees :
                      assignees[i].username = e.reviewer]

\* The time the reviewer had waited when the filter evaluated them.
EvalElapsed(e) == e.at - EvalAssignee(e).assigned_on_timestamp

\* The threshold of the run, in seconds.
ThresholdSeconds == args.max_wait_hours * SECONDS_PER_HOUR

\* The pull request is in the list of the reviewer in the result.
Listed(username, ref) ==
    \E k \in DOMAIN reviewer_to_assigned_prs :
        /\ reviewer_to_assigned_prs[k].reviewer = username
        /\ \E i \in DOMAIN reviewer_to_assigned_prs[k].prs :
               reviewer_to_assigned_prs[k].prs[i] = ref

\* The reviewer was evaluated on the pull request as a non-author assignee
\* who had waited at least the threshold.
OverdueOn(username, ref) ==
    \E k \in DOMAIN evals :
        /\ evals[k].ref = ref
        /\ evals[k].reviewer = username
        /\ username # heap[ref].author_username
        /\ EvalElapsed(evals[k]) >= ThresholdSeconds

\* The reference grouping: the pull requests, in the order they were
\* fetched, on which the reviewer is overdue.
ReferencePRs(username) ==
    SelectSeq([ref \in 1..Len(heap) |-> ref],
              LAMBDA ref : OverdueOn(username, ref))

OverdueReviewers == {u \in Usernames : ReferencePRs(u) # <<>>}

\* The requests of one kind, in the order they were sent.
CallsOfKind(kind) == SelectSeq(calls, LAMBDA c : c.kind = kind)

DiscussionKinds ==
    {"category", "discussions", "deleteDiscussion", "repository",
     "createDiscussion"}

(***************************************************************************)
(* C1.  The result of get_prs_assigned_to_reviewers never lists a pull     *)
(* request under the username of its own author, also when the author is   *)
(* an assignee whose assignment is older than the threshold.               *)
(***************************************************************************)
C1_AuthorNeverListed ==
    \A k \in DOMAIN reviewer_to_assigned_prs :
        \A i \in DOMAIN reviewer_to_assigned_prs[k].prs :
            heap[reviewer_to_assigned_prs[k].prs[i]].author_username
                # reviewer_to_assigned_prs[k].reviewer

\* The function has returned after evaluating an author who is an assignee
\* of their own pull request, assigned longer ago than the threshold.
C1_Witness ==
    /\ pc = "delete_discussions"
    /\ \E k \in DOMAIN evals :
          /\ evals[k].reviewer = heap[evals[k].ref].author_username
          /\ EvalElapsed(evals[k]) > ThresholdSeconds

(***************************************************************************)
(* C2.  An assignee without a matching "assigned" event, on a pull request *)
(* whose other assignees have one, is skipped by the filter: the run does  *)
(* not end in an error at that assignee.                                   *)
(***************************************************************************)
C2_UnmatchedAssigneeSkipped ==
    (pc = "failed" /\ fpos[1] > 0)
    => LET assignees == heap[pull_requests[fpos[1]]].assignees
       IN  (/\ assignees[fpos[2]].assigned_on_timestamp = NoTimestamp
            /\ \E j \in DOMAIN assignees :
                   assignees[j].assigned_on_timestamp # NoTimestamp)
           => error[1] # "TypeError"

(***************************************************************************)
(* C3.  The threshold is inclusive: a pull request is listed under a       *)
(* non-author assignee with a timestamp iff the time elapsed when the      *)
(* assignee was evaluated is at least max_waiting_time_in_hours hours.     *)
(***************************************************************************)
C3_ThresholdInclusive ==
    \A k \in DOMAIN evals :
        evals[k].reviewer # heap[evals[k].ref].author_username
        => (Listed(evals[k].reviewer, evals[k].ref)
            <=> EvalElapsed(evals[k]) >= ThresholdSeconds)

\* One assignee was evaluated exactly at the threshold and is listed, and
\* another one second below it and is not.
C3_Witness ==
    /\ \E k \in DOMAIN evals :
          /\ evals[k].reviewer # heap[evals[k].ref].author_username
          /\ EvalElapsed(evals[k]) = ThresholdSeconds
          /\ Listed(evals[k].reviewer, evals[k].ref)
    /\ \E k \in DOMAIN evals :
          /\ evals[k].reviewer # heap[evals[k].ref].author_username
          /\ EvalElapsed(evals[k]) = ThresholdSeconds - 1
          /\ ~Listed(evals[k].reviewer, evals[k].ref)

(***************************************************************************)
(* C4.  The map of get_prs_assigned_to_reviewers is the reference          *)
(* grouping: each reviewer of the map holds exactly the pull requests on   *)
(* which they are an overdue non-author assignee, in the order the pull    *)
(* requests were fetched, and every such reviewer is in the map once.      *)
(***************************************************************************)
C4_ReferenceGrouping ==
    /\ \A k \in DOMAIN reviewer_to_assigned_prs :
          reviewer_to_assigned_prs[k].prs =
              ReferencePRs(reviewer_to_assigned_prs[k].reviewer)
    /\ \A k, m \in DOMAIN reviewer_to_assigned_prs :
          reviewer_to_assigned_prs[k].reviewer =
              reviewer_to_assigned_prs[m].reviewer => k = m
    /\ {reviewer_to_assigned_prs[k].reviewer :
            k \in DOMAIN reviewer_to_assigned_prs} = OverdueReviewers

\* Two pull requests fetched on two pages: the first is listed under both
\* reviewers, and the first reviewer holds both pull requests.
C4_Witness ==
    /\ pc = "delete_discussions"
    /\ page_number = 3
    /\ reviewer_to_assigned_prs =
           <<[reviewer |-> "reviewerName1", prs |-> <<1, 2>>],
             [reviewer |-> "reviewerName2", prs |-> <<1>>]>>

(***************************************************************************)
(* C5.  After a run of main that completes without error, every discussion *)
(* that was in the category before the run has been deleted, however many  *)
(* there were, and the category holds exactly the discussions created by   *)
(* the run.                                                                *)
(***************************************************************************)
C5_EveryPriorDiscussionDeleted ==
    pc = "done"
    => /\ \A i \in DOMAIN before : \A j \in DOMAIN discussions :
              discussions[j].id # before[i].id
       /\ Len(discussions) = Len(CallsOfKind("createDiscussion"))

(***************************************************************************)
(* C6.  Every discussion id returned by the listing has had its            *)
(* deleteDiscussion mutation before the first createDiscussion mutation,   *)
(* no delete follows a create, and a run that aborts between the two       *)
(* phases leaves none of the listed discussions and no new discussion.     *)
(***************************************************************************)
C6_DeleteBeforeCreate ==
    /\ \A j \in DOMAIN calls :
          calls[j].kind = "createDiscussion"
          => /\ \A n \in DOMAIN discussion_ids :
                    \E i \in 1..(j - 1) :
                        /\ calls[i].kind = "deleteDiscussion"
                        /\ calls[i].arg = discussion_ids[n]
             /\ \A i \in DOMAIN calls :
                    calls[i].kind = "deleteDiscussion" => i < j
    /\ (pc = "failed" /\ cr_index >= 1
        /\ CallsOfKind("createDiscussion") = <<>>)
       => /\ \A j \in DOMAIN discussions : \A n \in DOMAIN discussion_ids :
                 discussions[j].id # discussion_ids[n]
          /\ \A j \in DOMAIN discussions : \E i \in DOMAIN before :
                 discussions[j] = before[i]

\* A run that deleted two listed discussions and then created one.
C6_Witness ==
    /\ Len(discussion_ids) = 2
    /\ Len(CallsOfKind("deleteDiscussion")) = 2
    /\ Len(CallsOfKind("createDiscussion")) >= 1

(***************************************************************************)
(* C7.  A run of main that completes without error has sent exactly one    *)
(* createDiscussion mutation for each reviewer with an overdue pull        *)
(* request, titled 'Pending Reviews: @<reviewer>' with the reviewer's      *)
(* rendered body, and none for any other username.                         *)
(***************************************************************************)
C7_OneDiscussionPerOverdueReviewer ==
    pc = "done"
    => LET creates == CallsOfKind("createDiscussion")
       IN  /\ Len(creates) = Cardinality(OverdueReviewers)
           /\ \A u \in OverdueReviewers :
                 \E j \in DOMAIN creates :
                     /\ creates[j].title = <<"Pending Reviews: @", u>>
                     /\ \E clock \in StartOfRun..(StartOfRun + MaxTicks) :
                            creates[j].body =
                                generate_message(u,
                                    [n \in DOMAIN ReferencePRs(u) |->
                                        heap[ReferencePRs(u)[n]]],
                                    template, clock)
                     /\ \A m \in DOMAIN creates :
                            creates[m].title = creates[j].title => m = j

\* A completed run that created a discussion for one reviewer and none for
\* an assignee who was evaluated and is not overdue.
C7_Witness ==
    /\ pc = "done"
    /\ Len(CallsOfKind("createDiscussion")) = 1
    /\ \E k \in DOMAIN evals : evals[k].reviewer \notin OverdueReviewers

(***************************************************************************)
(* C8.  When the template file does not exist, the run fails with an error *)
(* naming its path and has attempted no discussion API call.               *)
(***************************************************************************)
C8_NoDiscussionCallWithoutTemplate ==
    (pc = "failed" /\ error[1] = "Please add a template file at: ")
    => /\ error[2] = TEMPLATE_PATH
       /\ \A j \in DOMAIN calls : calls[j].kind \notin DiscussionKinds

(***************************************************************************)
(* C9.  When the category lookup returns no category of the configured     *)
(* name, the operation fails with an error naming the category, and the    *)
(* lookup is the only request that operation has sent: no listing, delete  *)
(* or create.                                                              *)
(***************************************************************************)
C9_MissingCategoryFails ==
    /\ (calls # <<>>
        /\ calls[Len(calls)].kind = "category"
        /\ calls[Len(calls)].outcome = "ok"
        /\ \A i \in DOMAIN categories :
               i <= CATEGORIES_FIRST => categories[i].name # args.category)
       => /\ pc = "failed"
          /\ error = <<"category is missing in GitHub Discussion.",
                       args.category>>
    /\ error[1] = "category is missing in GitHub Discussion."
       => /\ pc = "failed"
          /\ error[2] = args.category
          /\ calls[Len(calls)].kind = "category"
          /\ \A i \in DOMAIN calls :
                 (/\ calls[i].op = calls[Len(calls)].op
                  /\ calls[i].iter = calls[Len(calls)].iter)
                 => i = Len(calls)

\* create_discussion failed on the category after delete_discussions had
\* found it and deleted a discussion.
C9_Witness ==
    /\ error[1] = "category is missing in GitHub Discussion."
    /\ calls[Len(calls)].op = "create_discussion"
    /\ Len(CallsOfKind("deleteDiscussion")) >= 1

(***************************************************************************)
(* C10.  With no token or the empty string as token, init_service raises   *)
(* and main ends before any request is sent.                               *)
(***************************************************************************)
C10_NoRequestWithoutToken ==
    args.token \in {None, ""}
    => /\ calls = <<>>
       /\ TOKEN = None
       /\ pc \in {"main", "failed"}
       /\ pc = "failed"
          => error = <<"Must provide a valid GitHub Personal Access Token.", "">>

\* main has ended on the empty token.
C10_Witness ==
    /\ args.token = ""
    /\ pc = "failed"
    /\ calls = <<>>

\* The required arguments that the run was not given.
MissingArguments ==
    {a \in {"category", "max_wait_hours"} :
        \/ a = "category" /\ args.category = None
        \/ a = "max_wait_hours" /\ args.max_wait_hours = NoHours}

(***************************************************************************)
(* C11.  When --category or --max-wait-hours is not given, main fails with *)
(* an error that names the argument, before init_service has stored the    *)
(* token and before any request is sent.                                   *)
(***************************************************************************)
C11_MissingArgumentFailsFirst ==
    (MissingArguments # {} /\ pc # "main")
    => /\ pc = "failed"
       /\ error[1] = "Please provide argument."
       /\ error[2] \in MissingArguments
       /\ TOKEN = None
       /\ calls = <<>>

\* The request did not end with a success status.
Failed(call) == call.outcome \in {"timeout"} \cup HttpErrors

(***************************************************************************)
(* C12.  A request of any kind that times out or is answered with a        *)
(* non-success status aborts the run: it is the last request of the run    *)
(* and the run has ended with an error.                                    *)
(***************************************************************************)
C12_FailedRequestAbortsRun ==
    \A j \in DOMAIN calls :
        Failed(calls[j]) => (j = Len(calls) /\ pc = "failed")

\* The discussions that the run has put into the category.
NewDiscussions == SelectSeq(discussions, LAMBDA d : d.id > Len(before))

(***************************************************************************)
(* C13.  A run that has ended has created a discussion for every reviewer  *)
(* of the result or for none of them.                                      *)
(***************************************************************************)
C13_AllOrNothing ==
    pc \in {"done", "failed"}
    => Len(NewDiscussions) \in {0, Len(reviewer_to_assigned_prs)}

(***************************************************************************)
(* C13, amended.  The discussions created so far are those of the first    *)
(* reviewers of the result, in its order: after a failure no discussion is *)
(* created for a later reviewer, and a run that completes has created one  *)
(* for every reviewer.                                                     *)
(***************************************************************************)
C13_CreatedIsPrefix ==
    /\ Len(NewDiscussions) <= Len(reviewer_to_assigned_prs)
    /\ \A k \in DOMAIN NewDiscussions :
           NewDiscussions[k].title =
               discussion_title(reviewer_to_assigned_prs[k].reviewer)
    /\ pc = "done"
       => Len(NewDiscussions) = Len(reviewer_to_assigned_prs)

C13_Witness ==
    /\ pc = "failed"
    /\ Len(NewDiscussions) > 0
    /\ Len(NewDiscussions) < Len(reviewer_to_assigned_prs)

RECURSIVE Concat(_)
\* The concatenation of a sequence of sequences.
Concat(pages) ==
    IF pages = <<>> THEN <<>> ELSE Head(pages) \o Concat(Tail(pages))

\* The pages an endpoint was answered with, in the order of its requests.
PagesOf(requests) == [i \in DOMAIN requests |-> requests[i].body]

\* The requests for the pull-request listing, and for one timeline.
PullCalls == CallsOfKind("pulls")

TimelineCalls(number) ==
    SelectSeq(calls, LAMBDA c : c.kind = "timeline" /\ c.arg = number)

\* The pull-request dicts the listing has returned, in order.
ListedDicts == Concat(PagesOf(PullCalls))

\* The requests ask for pages 1, 2, ... and only the last was answered
\* with an empty page.
AscendingUntilEmpty(requests) ==
    \A i \in DOMAIN requests :
        /\ requests[i].page = i
        /\ i < Len(requests) => requests[i].body # <<>>

\* The endpoint has answered with an empty page.
Ended(requests) ==
    requests # <<>> /\ requests[Len(requests)].body = <<>>

\* The evaluations of the filter for one assignee of one pull request.
EvalsOf(ref, username) ==
    {k \in DOMAIN evals : evals[k].ref = ref /\ evals[k].reviewer = username}

(***************************************************************************)
(* C14.  For the pull-request listing and for each timeline: the requests  *)
(* ask for pages 1, 2, ... in order and none follows an empty page, so k   *)
(* non-empty pages and an empty one cost k+1 requests; the pull requests   *)
(* of the pages become objects once each, in page order, each from its     *)
(* dict with all the events of its timeline pages applied in page order,   *)
(* and when the listing has ended every assignee was evaluated once.  Two  *)
(* pull requests on one page with one timeline page each cost 6 requests.  *)
(***************************************************************************)
C14_PaginationComplete ==
    /\ AscendingUntilEmpty(PullCalls)
    /\ Len(heap) <= Len(ListedDicts)
    /\ \A n \in DOMAIN ListedDicts :
           /\ AscendingUntilEmpty(TimelineCalls(ListedDicts[n].number))
           /\ n <= Len(heap)
              => /\ Ended(TimelineCalls(ListedDicts[n].number))
                 /\ heap[n] = from_github_response(
                        apply_timeline_subset(ListedDicts[n],
                            Concat(PagesOf(
                                TimelineCalls(ListedDicts[n].number)))))
    /\ Ended(PullCalls)
       => /\ Len(heap) = Len(ListedDicts)
          /\ pc = "delete_discussions"
          /\ \A n \in DOMAIN heap : \A i \in DOMAIN heap[n].assignees :
                 Cardinality(EvalsOf(n, heap[n].assignees[i].username)) = 1
          /\ (/\ Len(PullCalls) = 2
              /\ Len(ListedDicts) = 2
              /\ \A n \in DOMAIN ListedDicts :
                     Len(TimelineCalls(ListedDicts[n].number)) = 2)
             => Len(calls) = 6

C14_Witness ==
    /\ Ended(PullCalls)
    /\ Len(PullCalls) = 2
    /\ Len(ListedDicts) = 2
    /\ \A n \in DOMAIN ListedDicts :
           Len(TimelineCalls(ListedDicts[n].number)) = 2
    /\ Len(calls) = 6

\* A listing of two pages and a timeline of two pages, all consumed.
C14_WitnessPages ==
    /\ Ended(PullCalls)
    /\ Len(PullCalls) = 3
    /\ \E n \in DOMAIN ListedDicts :
           Len(TimelineCalls(ListedDicts[n].number)) = 3

(***************************************************************************)
(* C15.  Every request for the pull-request listing and for a timeline is  *)
(* sent for the organisation and repository that --repo names.             *)
(***************************************************************************)
C15_FetchTargetsRepoArgument ==
    \A j \in DOMAIN calls :
        calls[j].method = "GET" => calls[j].repo = args.repo

\* No pull request of the caller's list has the username as an assignee.
OnNoPullRequest ==
    \A i \in DOMAIN gm_args.pr_list :
        get_assignee(gm_args.pr_list[i], gm_args.username) = NoAssignee

(***************************************************************************)
(* C16.  generate_message renders the username placeholder as '@' followed *)
(* by the username: with the template '{{ username }}\n{{ pr_list }}' and  *)
(* a list on which the reviewer is no assignee the result is exactly       *)
(* '@' username '\n'.                                                      *)
(***************************************************************************)
C16_UsernameRenderedWithAt ==
    \A k \in DOMAIN rendered :
        (template = TestTemplate /\ OnNoPullRequest)
        => rendered[k].out =
               <<Text("@"), Text(gm_args.username), Text("\n")>>

(***************************************************************************)
(* C17.  A pull request without assignees is skipped: its timeline never   *)
(* ends the run with an error, whatever events it holds, and the pull      *)
(* request is not evaluated and is listed for no reviewer.                 *)
(***************************************************************************)
C17_UnassignedPullRequestSkipped ==
    /\ (pc = "failed" /\ error[1] = "UnboundLocalError")
       => pr_subset[pr_index].assignees # <<>>
    /\ \A ref \in DOMAIN heap :
           heap[ref].assignees = <<>>
           => /\ \A k \in DOMAIN evals : evals[k].ref # ref
              /\ \A u \in Usernames : ~Listed(u, ref)

\* The listing of delete_discussions was answered and held no discussion.
ListedNothing ==
    /\ discussion_ids = <<>>
    /\ \E j \in DOMAIN calls :
           calls[j].kind = "discussions" /\ calls[j].outcome \notin
               {"timeout", "http_error"}

(***************************************************************************)
(* C18.  When the listing of delete_discussions returns no discussion, no  *)
(* deleteDiscussion request is sent and delete_discussions returns without *)
(* an error; every later request belongs to create_discussion, and a run   *)
(* that completes has sent one createDiscussion for each reviewer of the   *)
(* result, in its order.                                                   *)
(***************************************************************************)
C18_NothingToDelete ==
    ListedNothing
    => /\ CallsOfKind("deleteDiscussion") = <<>>
       /\ calls[Len(calls)].kind = "discussions"
          => \/ pc = "done" /\ reviewer_to_assigned_prs = <<>>
             \/ /\ pc \in {"render", "create_category"}
                /\ reviewer_to_assigned_prs # <<>>
             \/ pc = "failed" /\ error[1] = "Please add a template file at: "
       /\ \A j \in DOMAIN calls :
              (j > 1 /\ calls[j - 1].kind = "discussions")
              => calls[j].op = "create_discussion"
       /\ pc = "done"
          => /\ Len(CallsOfKind("createDiscussion")) =
                    Len(reviewer_to_assigned_prs)
             /\ \A k \in DOMAIN reviewer_to_assigned_prs :
                    CallsOfKind("createDiscussion")[k].title =
                        discussion_title(reviewer_to_assigned_prs[k].reviewer)

C18_Witness ==
    /\ ListedNothing
    /\ pc = "done"
    /\ Len(CallsOfKind("createDiscussion")) = 2

TimelineOf(number) == Concat(PagesOf(TimelineCalls(number)))

\* The positions of the 'assigned' events for the login.
AssignedTo(events, login) ==
    {k \in DOMAIN events :
        events[k].event = "assigned" /\ events[k].login = login}

\* The time of the last 'assigned' event for the login, if there is one.
LastWrite(events, login) ==
    LET hits == AssignedTo(events, login)
    IN  IF hits = {} THEN NoTimestamp
        ELSE parse(events[CHOOSE k \in hits :
                               \A h \in hits : h <= k].created_at)

(***************************************************************************)
(* C20.  Every PullRequest object has the assignees of its listed dict,    *)
(* in order, and each assignee's timestamp is the time of the last         *)
(* 'assigned' event for that login over all pages of the timeline, in the  *)
(* order they were served (none if there is no such event); the same holds *)
(* of the dict whose timeline is being read, for the pages read so far.    *)
(* Events of other kinds and for other logins therefore change nothing.    *)
(***************************************************************************)
C20_LastAssignedEventWins ==
    /\ \A n \in DOMAIN heap :
           /\ heap[n].pr_number = ListedDicts[n].number
           /\ Len(heap[n].assignees) = Len(ListedDicts[n].assignees)
           /\ \A i \in DOMAIN heap[n].assignees :
                  /\ heap[n].assignees[i].username =
                         ListedDicts[n].assignees[i].login
                  /\ heap[n].assignees[i].assigned_on_timestamp =
                         LastWrite(TimelineOf(heap[n].pr_number),
                                   heap[n].assignees[i].username)
    /\ pc = "get_timeline"
       => \A i \in DOMAIN pr_subset[pr_index].assignees :
              pr_subset[pr_index].assignees[i].created_at =
                  LastWrite(TimelineOf(pr_subset[pr_index].number),
                            pr_subset[pr_index].assignees[i].login)

\* A pull request of reviewerName1 alone whose timeline had two pages, with
\* two 'assigned' events for reviewerName1 at different times and an event
\* that is not for an assignee.
C20_Witness ==
    \E n \in DOMAIN heap :
        LET events == TimelineOf(heap[n].pr_number)
            hits == AssignedTo(events, "reviewerName1")
        IN  /\ Len(heap[n].assignees) = 1
            /\ heap[n].assignees[1].username = "reviewerName1"
            /\ Len(TimelineCalls(heap[n].pr_number)) = 3
            /\ Cardinality(hits) = 2
            /\ \E j, k \in hits :
                   /\ j < k
                   /\ events[j].created_at # events[k].created_at
                   /\ heap[n].assignees[1].assigned_on_timestamp =
                          parse(events[k].created_at)
            /\ DOMAIN events \ hits # {}

\* The step sends one request; the request it sends.
Sent ==
    /\ Len(calls') = Len(calls) + 1
    /\ SubSeq(calls', 1, Len(calls)) = calls

NewCall == calls'[Len(calls')]

\* The earlier requests of the loop that sends the request: the listing, or
\* the timeline of the same pull request.
EarlierOfLoop(call) ==
    SelectSeq(calls, LAMBDA c : c.kind = call.kind /\ c.arg = call.arg)

\* What a step that sends a GET request does.
PageStep ==
    LET earlier == EarlierOfLoop(NewCall)
    IN  /\ NewCall.page = Len(earlier) + 1
        /\ earlier # <<>> => earlier[Len(earlier)].body # <<>>
        /\ NewCall.kind = "pulls"
           => /\ NewCall.page = page_number
              /\ IF NewCall.body = <<>>
                 THEN pc' = "delete_discussions"
                 ELSE /\ pc' = "get_timeline"
                      /\ page_number' = NewCall.page + 1
        /\ NewCall.kind = "timeline"
           => /\ NewCall.page = tl_page_number
              /\ IF NewCall.body = <<>>
                 THEN \/ Len(heap') = Len(heap) + 1
                      \/ pc' = "failed"
                 ELSE /\ pc' = "get_timeline"
                      /\ pr_index' = pr_index
                      /\ heap' = heap
                      /\ tl_page_number' = NewCall.page + 1

(***************************************************************************)
(* C21.  Every request of a pagination loop asks for the page after the    *)
(* last page the loop asked for, starting with 1, and only after that page *)
(* was answered with items.  A loop ends in the step that receives an      *)
(* empty page and in no other: after a page with items the loop is still   *)
(* running with the next page number, the listing is left and an object    *)
(* is built only by a step that received an empty page.                    *)
(***************************************************************************)
C21_PagesInOrder ==
    [][/\ calls' # calls => Sent
       /\ (Sent /\ NewCall.method = "GET") => PageStep
       /\ (pc # "delete_discussions" /\ pc' = "delete_discussions")
          => (Sent /\ NewCall.kind = "pulls" /\ NewCall.body = <<>>)
       /\ heap' # heap
          => (Sent /\ NewCall.kind = "timeline" /\ NewCall.body = <<>>)]_vars

C21_Witness ==
    /\ Ended(PullCalls)
    /\ Len(PullCalls) = 3
    /\ Len(ListedDicts) = 2
    /\ \E n \in DOMAIN ListedDicts :
           /\ Ended(TimelineCalls(ListedDicts[n].number))
           /\ Len(TimelineCalls(ListedDicts[n].number)) = 3

RECURSIVE ExpandOnce(_, _, _)
\* The template with each of its own placeholders replaced, and nothing
\* that was inserted looked at again.
ExpandOnce(file, name, lines) ==
    IF file = <<>> THEN <<>>
    ELSE (IF Head(file).text \in UsernamePlaceholders THEN name
          ELSE IF Head(file).text \in PrListPlaceholders THEN lines
          ELSE <<Head(file)>>) \o ExpandOnce(Tail(file), name, lines)

(***************************************************************************)
(* C22.  The text generate_message returns is its template with every      *)
(* username placeholder of the template replaced by the username as it is  *)
(* and every pr_list placeholder of the template by the list of lines: an  *)
(* inserted username is not expanded, whatever it contains.                *)
(***************************************************************************)
C22_InsertedUsernameNotExpanded ==
    \A k \in DOMAIN rendered :
        rendered[k].out =
            ExpandOnce(template, <<Text(gm_args.username)>>,
                       join(Text("\n"),
                            pr_list_messages(gm_args.username,
                                gm_args.pr_list, rendered[k].at)))

\* The positions of the caller's list at which the username is an assignee.
AssignedPositions ==
    {i \in DOMAIN gm_args.pr_list :
        \E a \in DOMAIN gm_args.pr_list[i].assignees :
            gm_args.pr_list[i].assignees[a].username = gm_args.username}

\* The j-th of them, in the order of the list.
AssignedPosition(j) ==
    CHOOSE i \in AssignedPositions :
        Cardinality({h \in AssignedPositions : h <= i}) = j

\* The time the username was assigned on the pull request at position i:
\* that of its first assignee of that name.
AssignedAt(i) ==
    LET assignees == gm_args.pr_list[i].assignees
        first == CHOOSE a \in DOMAIN assignees :
                    /\ assignees[a].username = gm_args.username
                    /\ \A b \in 1..(a - 1) :
                           assignees[b].username # gm_args.username
    IN  assignees[first].assigned_on_timestamp

\* The text a call has put in the place of the pr_list placeholder.
PrListText(out) ==
    IF template = TestTemplate THEN SubSeq(out, 3, Len(out))
    ELSE SubSeq(out, 4, Len(out) - 2)

(***************************************************************************)
(* C23.  The text put in the place of the pr_list placeholder has one line *)
(* for each pull request of the list on which the username is an assignee, *)
(* in the order of the list, each with that pull request's number and the  *)
(* waiting time of that assignee, with one newline between two lines and   *)
(* nothing before the first or after the last; the other pull requests     *)
(* give no line.  (Stated for usernames that are not placeholder text.)    *)
(***************************************************************************)
C23_OneLinePerAssignedPullRequest ==
    \A k \in DOMAIN rendered :
        gm_args.username \notin PrListPlaceholders
        => LET text == PrListText(rendered[k].out)
               count == Cardinality(AssignedPositions)
           IN  /\ Len(text) = IF count = 0 THEN 0 ELSE 2 * count - 1
               /\ \A j \in 1..count :
                      /\ text[2 * j - 1].pr =
                             gm_args.pr_list[AssignedPosition(j)].pr_number
                      /\ text[2 * j - 1].wait =
                             rendered[k].at - AssignedAt(AssignedPosition(j))
                      /\ text[2 * j - 1].text # "\n"
               /\ \A j \in 1..(count - 1) : text[2 * j] = Text("\n")

\* A list of two pull requests with the username an assignee of both, the
\* second of two assignees on one of them.
C23_Witness ==
    /\ rendered # <<>>
    /\ gm_args.username = "reviewerName1"
    /\ AssignedPositions = {1, 2}
    /\ Len(gm_args.pr_list[1].assignees) = 2
    /\ gm_args.pr_list[1].assignees[2].username = "reviewerName1"
    /\ template = LetterTemplate

(***************************************************************************)
(* C24.  Every request for the pull-request listing or a timeline is sent  *)
(* before the first discussion request, which is sent only after the       *)
(* listing has ended with an empty page; and as long as no discussion      *)
(* request was sent, in particular when the run has failed during the      *)
(* fetch, the category holds the discussions it held before the run.       *)
(***************************************************************************)
C24_FetchBeforeSync ==
    LET sync == {j \in DOMAIN calls : calls[j].kind \in DiscussionKinds}
    IN  IF sync = {}
        THEN discussions = before
        ELSE LET first == CHOOSE j \in sync : \A k \in sync : j <= k
             IN  /\ \A i \in first..Len(calls) : calls[i].method # "GET"
                 /\ \E i \in 1..(first - 1) :
                        /\ calls[i].kind = "pulls"
                        /\ calls[i].outcome = "ok"
                        /\ calls[i].body = <<>>

\* A run that failed in the fetch, after a first page was handled, with
\* discussions in the category.
C24_Witness ==
    /\ pc = "failed"
    /\ calls # <<>>
    /\ calls[Len(calls)].method = "GET"
    /\ Len(heap) >= 1
    /\ Len(before) = MaxDiscussions
    /\ discussions = before

(***************************************************************************)
(* C25.  While the token is None no request has been sent: a service       *)
(* operation called then has raised the 'Initialize the service' error     *)
(* (or init_service its own) and nothing else has happened.                *)
(***************************************************************************)
C25_NoRequestBeforeInit ==
    TOKEN = None
    => /\ calls = <<>>
       /\ pc \in {"caller", "failed"}
       /\ pc = "failed"
          => error[1] \in
                {"Initialize the service with github_services.init_service(TOKEN).",
                 "Must provide a valid GitHub Personal Access Token."}

====
